---- MODULE Spec2Model ----
(***************************************************************************)
(* Model of examples/grep-server/generate-script.py: a script that opens   *)
(* demo-data/large-records.csv for writing, writes a CSV header and then   *)
(* one randomly sampled employee record per loop index.                    *)
(*                                                                         *)
(* Text is modelled as sequences of one-character strings, so that         *)
(* str.lower(), str(int), the f-string compositions and csv.writer's       *)
(* serialisation are computed rather than assumed; the file is the flat    *)
(* sequence of characters that a reader of the file would see.             *)
(***************************************************************************)
EXTENDS Integers, Sequences, FiniteSets, TLC

VARIABLES
    pc,          \* position of the script: "start", "opened", "loop", "done", "failed"
    N,           \* the loop's record count (range(N)); fixed for a behaviour
    i,           \* the loop index: rows 0..i-1 have been written by this run
    file,        \* content of the destination file, or NoFile
    handle,      \* the file object f: "none", "open", "closed"
    dirExists,   \* whether the directory demo-data/ exists
    failedAt,    \* the step whose I/O error ended this run, or "none"
    hadContent   \* whether open() found a non-empty file to truncate

vars == <<pc, N, i, file, handle, dirExists, failedAt, hadContent>>

(***************************** bounds **************************************)
\* largest record count explored (the script's own count is 100000)
MaxN == 11
\* number of interior grid points of a randint range that are explored
Grain == 1

(***************************** characters **********************************)
UpperLetters ==
    <<"A","B","C","D","E","F","G","H","I","J","K","L","M",
      "N","O","P","Q","R","S","T","U","V","W","X","Y","Z">>

LowerLetters ==
    <<"a","b","c","d","e","f","g","h","i","j","k","l","m",
      "n","o","p","q","r","s","t","u","v","w","x","y","z">>

Digits == <<"0","1","2","3","4","5","6","7","8","9">>

CR == "\r"
LF == "\n"

Range(s) == {s[k] : k \in 1..Len(s)}

(***************************** lookup tables *******************************)
depts ==
    << <<"E","n","g","i","n","e","e","r","i","n","g">>,
       <<"S","a","l","e","s">>,
       <<"M","a","r","k","e","t","i","n","g">>,
       <<"H","R">>,
       <<"P","r","o","d","u","c","t">>,
       <<"L","e","g","a","l">>,
       <<"S","u","p","p","o","r","t">> >>

first_names ==
    << <<"J","a","m","e","s">>,
       <<"M","a","r","y">>,
       <<"R","o","b","e","r","t">>,
       <<"P","a","t","r","i","c","i","a">>,
       <<"J","o","h","n">>,
       <<"J","e","n","n","i","f","e","r">>,
       <<"M","i","c","h","a","e","l">>,
       <<"L","i","n","d","a">> >>

last_names ==
    << <<"S","m","i","t","h">>,
       <<"J","o","h","n","s","o","n">>,
       <<"W","i","l","l","i","a","m","s">>,
       <<"B","r","o","w","n">>,
       <<"J","o","n","e","s">>,
       <<"G","a","r","c","i","a">>,
       <<"M","i","l","l","e","r">>,
       <<"D","a","v","i","s">> >>

\* the path's file name part is irrelevant; the directory part decides open()
NoFile == "NoFile"

(***************************** pure functions ******************************)
Min(a, b) == IF a <= b THEN a ELSE b

\* str.lower() on one character (ASCII letters; everything else is kept)
lowerChar(c) ==
    IF \E k \in 1..Len(UpperLetters) : UpperLetters[k] = c
    THEN LowerLetters[CHOOSE k \in 1..Len(UpperLetters) : UpperLetters[k] = c]
    ELSE c

\* variant: no case folding
lowerKeep(s) == s

\* str.lower()
lower(s) == [k \in 1..Len(s) |-> lowerChar(s[k])]

\* str(n) / the f-string's {i} for a non-negative integer: decimal digits
RECURSIVE str(_)
str(n) ==
    IF n < 10 THEN <<Digits[n + 1]>>
    ELSE str(n \div 10) \o <<Digits[(n % 10) + 1]>>

\* variant: last name first
NameLastFirst(fname, lname) == lname \o <<" ">> \o fname

\* f"{fname} {lname}"
Name(fname, lname) == fname \o <<" ">> \o lname

\* the fixed mail domain of the f-string
Domain == <<"@","c","o","m","p","a","n","y",".","c","o","m">>

\* variant: the address without the index
EmailNoIndex(fname, lname, idx) ==
    lower(fname) \o <<".">> \o lower(lname) \o Domain

\* f"{fname.lower()}.{lname.lower()}{i}@company.com"
Email(fname, lname, idx) ==
    lower(fname) \o <<".">> \o lower(lname) \o str(idx) \o Domain

\* Python values carry their type: a str or an int
Text(s) == [type |-> "str", val |-> s]
Number(n) == [type |-> "int", val |-> n]

\* the header list passed to the first writerow
HeaderRow ==
    << Text(<<"n","a","m","e">>),
       Text(<<"e","m","a","i","l">>),
       Text(<<"a","g","e">>),
       Text(<<"s","a","l","a","r","y">>),
       Text(<<"d","e","p","a","r","t","m","e","n","t">>) >>

\* variant: salary and name exchanged
RowSalaryFirst(name, email, age, salary, dept) ==
    <<Number(salary), Text(email), Number(age), Text(name), Text(dept)>>

\* the list passed to the loop's writerow: [name, email, age, salary, dept]
Row(name, email, age, salary, dept) ==
    <<Text(name), Text(email), Number(age), Number(salary), Text(dept)>>

(***************************** csv.writer **********************************)
\* csv.writer(f) with the default dialect: delimiter ",", quotechar '"',
\* lineterminator "\r\n", QUOTE_MINIMAL; non-strings are passed through str()
Special == {",", "\"", CR, LF}

CsvText(x) == IF x.type = "int" THEN str(x.val) ELSE x.val

RECURSIVE DoubleQuotes(_)
DoubleQuotes(s) ==
    IF s = <<>> THEN <<>>
    ELSE (IF Head(s) = "\"" THEN <<"\"", "\"">> ELSE <<Head(s)>>)
         \o DoubleQuotes(Tail(s))

CsvField(x) ==
    LET t == CsvText(x)
    IN  IF Range(t) \cap Special # {}
        THEN <<"\"">> \o DoubleQuotes(t) \o <<"\"">>
        ELSE t

RECURSIVE Join(_)
Join(fields) ==
    IF Len(fields) = 0 THEN <<>>
    ELSE IF Len(fields) = 1 THEN CsvField(fields[1])
    ELSE CsvField(fields[1]) \o <<",">> \o Join(Tail(fields))

\* the characters one w.writerow(fields) call hands to f.write
writerow(fields) == Join(fields) \o <<CR, LF>>

(***************************** random **************************************)
\* How many outcomes of each draw are explored, by record count: every
\* outcome for runs of at most one row, two for two rows, one beyond that
\* (the number of files a run can produce grows as outcomes^N).
Width(n) == IF n <= 1 THEN 8 ELSE IF n = 2 THEN 2 ELSE 1

\* random.choice(seq): any element of seq (the first w are explored)
choice(seq, w) == {seq[k] : k \in 1..Min(w, Len(seq))}

\* variant: a range shifted by one at both ends
randintShifted(a, b, w) == IF w = 1 THEN {a - 1} ELSE {a - 1, b + 1}

\* random.randint(a, b): any integer of a..b, both ends included (explored:
\* a alone, then both ends, then the ends and Grain interior grid points)
randint(a, b, w) ==
    IF w = 1 THEN {a}
    ELSE IF w = 2 THEN {a, b}
    ELSE {a, b} \cup {a + k * ((b - a) \div (Grain + 1)) : k \in 1..Grain}

\* variant: the end included
rangeInclusive(n) == 0..n

\* variant: the loop index advancing by two
NextIndexSkip(idx) == idx + 2

\* the for loop's step to the next element of range(n)
NextIndex(idx) == idx + 1

\* range(n)
range(n) == 0..(n - 1)

(***************************** the script **********************************)
\* variant: open() that succeeds without the directory
OpenOutcomesAnyDir(dir) == {"ok", "error"}

\* open(path, "w"): the outcomes the operating system allows. A missing
\* directory always fails (FileNotFoundError); an existing one may still
\* fail (permission denied, ...).
OpenOutcomes(dir) == IF dir THEN {"ok", "error"} ELSE {"error"}

\* variant: mode "a"
KeepOld(old) == old

\* mode "w": the content an opened file starts with, whatever it held
Truncate(old) == <<>>

\* variant: no with statement, the file stays as it was
HandleLeft(h) == h

\* leaving the with block on an exception: f.__exit__ closes the file
HandleAfterError(h) == "closed"

\* the state before the script first runs: the destination file does not
\* exist yet, its directory may or may not
Init ==
    /\ pc = "start"
    /\ N \in 0..MaxN
    /\ i = 0
    /\ dirExists \in BOOLEAN
    /\ file = NoFile
    /\ handle = "none"
    /\ failedAt = "none"
    /\ hadContent = FALSE

\* line 26, open succeeds: the file is created or truncated
OpenOk ==
    /\ pc = "start"
    /\ "ok" \in OpenOutcomes(dirExists)
    /\ pc' = "opened"
    /\ hadContent' = (file # NoFile /\ file # <<>>)
    /\ file' = Truncate(IF file = NoFile THEN <<>> ELSE file)
    /\ handle' = "open"
    /\ UNCHANGED <<N, i, dirExists, failedAt>>

\* line 26, open raises: the with body never runs, nothing is touched
OpenFail ==
    /\ pc = "start"
    /\ "error" \in OpenOutcomes(dirExists)
    /\ pc' = "failed"
    /\ failedAt' = "open"
    /\ UNCHANGED <<N, i, file, handle, dirExists, hadContent>>

\* lines 27-28: csv.writer(f) and the header's writerow
WriteHeaderOk ==
    /\ pc = "opened"
    /\ file' = file \o writerow(HeaderRow)
    /\ pc' = "loop"
    /\ i' = 0
    /\ UNCHANGED <<N, handle, dirExists, failedAt, hadContent>>

\* line 28 raises OSError: the with statement closes f, the script ends
WriteHeaderFail ==
    /\ pc = "opened"
    /\ pc' = "failed"
    /\ failedAt' = "header"
    /\ handle' = HandleAfterError(handle)
    /\ UNCHANGED <<N, i, file, dirExists, hadContent>>

\* lines 29-37, one iteration: the draws, the compositions, the writerow
WriteRowOk ==
    /\ pc = "loop"
    /\ i \in range(N)
    /\ \E fname \in choice(first_names, Width(N)),
          lname \in choice(last_names, Width(N)),
          age \in randint(22, 65, Width(N)),
          salary \in randint(40000, 160000, Width(N)),
          dept \in choice(depts, Width(N)) :
            file' = file \o writerow(Row(Name(fname, lname),
                                         Email(fname, lname, i),
                                         age, salary, dept))
    /\ i' = NextIndex(i)
    /\ UNCHANGED <<pc, N, handle, dirExists, failedAt, hadContent>>

\* line 37 raises OSError: the with statement closes f, the script ends
WriteRowFail ==
    /\ pc = "loop"
    /\ i \in range(N)
    /\ pc' = "failed"
    /\ failedAt' = "row"
    /\ handle' = HandleAfterError(handle)
    /\ UNCHANGED <<N, i, file, dirExists, hadContent>>

\* the loop is exhausted and the with block is left: f is closed
CloseOk ==
    /\ pc = "loop"
    /\ i \notin range(N)
    /\ pc' = "done"
    /\ handle' = "closed"
    /\ UNCHANGED <<N, i, file, dirExists, failedAt, hadContent>>

\* the final flush of close() raises OSError: f is closed all the same
CloseFail ==
    /\ pc = "loop"
    /\ i \notin range(N)
    /\ pc' = "failed"
    /\ failedAt' = "close"
    /\ handle' = "closed"
    /\ UNCHANGED <<N, i, file, dirExists, hadContent>>

\* the script is run again: a new process, the same file system
Rerun ==
    /\ pc \in {"done", "failed"}
    /\ pc' = "start"
    /\ i' = 0
    /\ handle' = "none"
    /\ failedAt' = "none"
    /\ hadContent' = FALSE
    /\ UNCHANGED <<N, file, dirExists>>

Next ==
    \/ OpenOk
    \/ OpenFail
    \/ WriteHeaderOk
    \/ WriteHeaderFail
    \/ WriteRowOk
    \/ WriteRowFail
    \/ CloseOk
    \/ CloseFail
    \/ Rerun

Spec == Init /\ [][Next]_vars

(***************************** reading the file ****************************)
\* What a reader of the file sees; none of this is used by the script.
RECURSIVE Split(_, _)
Split(s, sep) ==
    IF \A k \in 1..Len(s) : s[k] # sep THEN <<s>>
    ELSE LET p == CHOOSE k \in 1..Len(s) :
                    s[k] = sep /\ \A q \in 1..(k - 1) : s[q] # sep
         IN  <<SubSeq(s, 1, p - 1)>> \o Split(SubSeq(s, p + 1, Len(s)), sep)

StripCR(s) ==
    IF Len(s) > 0 /\ s[Len(s)] = CR THEN SubSeq(s, 1, Len(s) - 1) ELSE s

\* the lines of a text: pieces ended by LF (CR LF), plus an unended last piece
Lines(s) ==
    LET parts == Split(s, LF)
        kept  == IF parts[Len(parts)] = <<>>
                 THEN SubSeq(parts, 1, Len(parts) - 1) ELSE parts
    IN  [k \in 1..Len(kept) |-> StripCR(kept[k])]

Fields(line) == Split(line, ",")

Count(s, c) == Cardinality({k \in 1..Len(s) : s[k] = c})

EndsWith(s, suffix) ==
    /\ Len(s) >= Len(suffix)
    /\ SubSeq(s, Len(s) - Len(suffix) + 1, Len(s)) = suffix

IsNumber(s) == Len(s) > 0 /\ \A k \in 1..Len(s) : s[k] \in Range(Digits)

DigitValue(c) == (CHOOSE k \in 1..10 : Digits[k] = c) - 1

RECURSIVE ToInt(_)
ToInt(s) ==
    IF Len(s) = 0 THEN 0
    ELSE 10 * ToInt(SubSeq(s, 1, Len(s) - 1)) + DigitValue(s[Len(s)])

\* the longest run of digits a text ends with
RECURSIVE TrailingDigits(_)
TrailingDigits(s) ==
    IF Len(s) = 0 \/ s[Len(s)] \notin Range(Digits) THEN <<>>
    ELSE TrailingDigits(SubSeq(s, 1, Len(s) - 1)) \o <<s[Len(s)]>>

AllLower(s) == Len(s) > 0 /\ \A k \in 1..Len(s) : s[k] \in Range(LowerLetters)

\* equal up to the case of letters
SameLetters(a, b) ==
    /\ Len(a) = Len(b)
    /\ \A k \in 1..Len(a) :
          \/ a[k] = b[k]
          \/ \E m \in 1..26 : {a[k], b[k]} = {UpperLetters[m], LowerLetters[m]}

\* the part of an address before its "@"
LocalPart(email) == Split(email, "@")[1]

\* the index an address embeds: the digits its local part ends with
IndexOf(email) == ToInt(TrailingDigits(LocalPart(email)))

\* the header line, byte for byte
HeaderLine ==
    <<"n","a","m","e",",","e","m","a","i","l",",","a","g","e",",",
      "s","a","l","a","r","y",",","d","e","p","a","r","t","m","e","n","t">>

AtCompany == <<"@","c","o","m","p","a","n","y",".","c","o","m">>

\* this run has written its header
Written ==
    \/ pc \in {"loop", "done"}
    \/ pc = "failed" /\ failedAt \in {"row", "close"}

\* the data rows of the file, each as its sequence of fields, once this run
\* has written its header
Rows ==
    IF Written /\ file # NoFile
    THEN LET L == Lines(file)
         IN  [k \in 1..(Len(L) - 1) |-> Fields(L[k + 1])]
    ELSE <<>>

(***************************** claims **************************************)

\* C1: a run that completes without I/O failure leaves exactly N+1 lines, the
\* header line followed by N data rows; for N = 0 the header line alone.
C1_LineCount ==
    pc = "done" =>
        LET L == Lines(file)
        IN  /\ Len(L) = N + 1
            /\ L[1] = HeaderLine
            /\ \A k \in 2..Len(L) : L[k] # HeaderLine /\ Len(Fields(L[k])) = 5
            /\ (N = 0 => L = <<HeaderLine>>)

C1_Witness == pc = "done" /\ N = 3 /\ Len(Lines(file)) = 4

\* C2: once a data row has been written, the first line of the file is the
\* header, no later line is a header, and every data row lists name, email,
\* age, salary, department in the header's order.
C2_HeaderOnceAndFirst ==
    (Written /\ i >= 1) =>
        LET L == Lines(file)
        IN  /\ L[1] = HeaderLine
            /\ Fields(L[1]) = [k \in 1..5 |-> HeaderRow[k].val]
            /\ \A k \in 2..Len(L) :
                  LET r == Fields(L[k])
                  IN  /\ L[k] # HeaderLine
                      /\ Len(r) = 5
                      /\ Count(r[1], " ") = 1 /\ Count(r[1], "@") = 0
                      /\ Count(r[2], "@") = 1
                      /\ IsNumber(r[3]) /\ ToInt(r[3]) < 1000
                      /\ IsNumber(r[4]) /\ ToInt(r[4]) >= 1000
                      /\ r[5] \in Range(depts)

C2_Witness == Written /\ i >= 2 /\ Len(Rows) = 2

\* C3: at every point of the run the file holds the header followed by the
\* rows of indices 0..i-1 in that order, with i <= N: the data row at
\* position k embeds index k in its email.
C3_RowsInIndexOrder ==
    LET R == Rows
    IN
        Written =>
            /\ i <= N
            /\ Len(Lines(file)) = i + 1
            /\ Lines(file)[1] = HeaderLine
            /\ Len(R) = i
            /\ \A k \in 0..(i - 1) :
                  /\ IndexOf(R[k + 1][2]) = k
                  /\ EndsWith(R[k + 1][2], str(k) \o AtCompany)

C3_Witness ==
    /\ N = 3 /\ pc = "done" /\ Len(Rows) = 3
    /\ EndsWith(Rows[3][2], <<"2">> \o AtCompany)

\* C4: no two data rows of a run have the same email, also when the same
\* first/last name pair is drawn for several indices.
C4_EmailsUnique ==
    LET R == Rows
    IN
        \A j, k \in 1..Len(R) : j # k => R[j][2] # R[k][2]

C4_Witness ==
    LET R == Rows
    IN
        \E j, k \in 1..Len(R) : j # k /\ R[j][1] = R[k][1]

\* C5 as stated: every data row's email ends with "{i}@company.com" and
\* contains exactly one "." character.
C5_ExactlyOneDot ==
    LET R == Rows
    IN
        \A k \in 1..Len(R) :
            /\ EndsWith(R[k][2], str(k - 1) \o AtCompany)
            /\ Count(R[k][2], ".") = 1

\* C5 as amended: every data row's email ends with "{i}@company.com"; its
\* local part (before the "@") contains exactly one ".", which separates the
\* lower-cased first name from the lower-cased last name followed by the
\* index; the email as a whole has two ".", the second in company.com.
C5_OneDotInLocalPart ==
    LET R == Rows
    IN
        \A k \in 1..Len(R) :
            LET email == R[k][2]
                names == Split(R[k][1], " ")
                segs  == Split(LocalPart(email), ".")
                digs  == TrailingDigits(LocalPart(email))
            IN  /\ EndsWith(email, str(k - 1) \o AtCompany)
                /\ Count(LocalPart(email), ".") = 1
                /\ Count(email, ".") = 2
                /\ Len(segs) = 2 /\ Len(names) = 2
                /\ AllLower(segs[1]) /\ SameLetters(segs[1], names[1])
                /\ Len(segs[2]) > Len(digs)
                /\ LET last == SubSeq(segs[2], 1, Len(segs[2]) - Len(digs))
                   IN  AllLower(last) /\ SameLetters(last, names[2])

C5_Witness ==
    /\ Len(Rows) = MaxN
    /\ EndsWith(Rows[MaxN][2], str(MaxN - 1) \o AtCompany)
    /\ MaxN - 1 >= 10

\* C6: every data row has an integer age in 22..65, an integer salary in
\* 40000..160000 and a department among the 7 fixed labels.
C6_FieldRanges ==
    LET R == Rows
    IN
        \A k \in 1..Len(R) :
            /\ IsNumber(R[k][3]) /\ ToInt(R[k][3]) \in 22..65
            /\ IsNumber(R[k][4]) /\ ToInt(R[k][4]) \in 40000..160000
            /\ R[k][5] \in Range(depts)
            /\ Cardinality(Range(depts)) = 7

C6_Witness ==
    /\ Len(Rows) = 1
    /\ ToInt(Rows[1][3]) = 65
    /\ ToInt(Rows[1][4]) = 160000
    /\ Rows[1][5] = depts[7]

\* C7: every data row's name is "<first> <last>" with first and last from
\* the two fixed 8-element sets, and the same row's email is
\* lower(first) "." lower(last) index "@company.com" for that same pair.
C7_EmailFromSameNames ==
    /\ Cardinality(Range(first_names)) = 8
    /\ Cardinality(Range(last_names)) = 8
    /\ LET R == Rows
       IN  \A k \in 1..Len(R) :
              LET names == Split(R[k][1], " ")
              IN  /\ Len(names) = 2
                  /\ names[1] \in Range(first_names)
                  /\ names[2] \in Range(last_names)
                  /\ R[k][2] = lower(names[1]) \o <<".">> \o lower(names[2])
                                  \o str(k - 1) \o AtCompany

C7_Witness ==
    /\ Len(Rows) = 1
    /\ Rows[1][1] = first_names[8] \o <<" ">> \o last_names[3]

\* C8: with the destination directory missing the run fails at the open
\* step: no header, no row, and no destination file afterwards.
C8_MissingDirectory ==
    ~dirExists =>
        /\ pc \in {"start", "failed"}
        /\ (pc = "failed" => failedAt = "open")
        /\ file = NoFile
        /\ handle = "none"
        /\ i = 0

C8_Witness == ~dirExists /\ pc = "failed" /\ failedAt = "open"

\* C9: an I/O failure is fatal: once a run has failed it writes nothing more
\* and takes no further step of its own (the next step can only be a new
\* run); a file that was opened is closed, and every run, successful or
\* failed, ends with the file not open.
C9_FailureIsFatal ==
    /\ [](pc \in {"done", "failed"} => handle # "open")
    /\ []((pc = "failed" /\ failedAt # "open") => handle = "closed")
    /\ [][pc = "failed" => (file' = file /\ pc' = "start")]_vars
    /\ [][(pc' = "failed" /\ pc # "failed") => (file' = file /\ i' = i)]_vars

C9_Witness ==
    pc = "failed" /\ failedAt = "row" /\ i >= 1 /\ handle = "closed"

\* C10: a successful run over a file that already held a previous run's
\* content leaves only its own header and N data rows.
C10_Overwrites ==
    LET R == Rows
    IN
        (pc = "done" /\ hadContent) =>
            /\ Len(Lines(file)) = N + 1
            /\ Count(file, LF) = N + 1
            /\ Lines(file)[1] = HeaderLine
            /\ \A k \in 1..N : Len(R[k]) = 5 /\ IndexOf(R[k][2]) = k - 1

C10_Witness == pc = "done" /\ hadContent /\ N = 2

====
